---- MODULE Spec2Model ----
(***************************************************************************)
(* Model of monte_carlo_gain_adjustment.py: the Trajectory Generator       *)
(* (simulate_gain_adjustment) and the Ensemble Simulator                   *)
(* (monte_carlo_simulation_preferred_gain).                                *)
(*                                                                         *)
(* Gains are reals in the program.  The model keeps them exact as integer  *)
(* multiples of 1/Unit dB, Unit a power of two large enough that every     *)
(* halving of the step mean the loop can perform stays an integer.         *)
(* A draw of numpy's generator is a standard normal variate z taken from   *)
(* a small set; normal(loc, scale) is loc + scale * z and lognormal(m, s)  *)
(* is exp(m + s * z), as numpy computes them.                              *)
(***************************************************************************)
EXTENDS Integers, Sequences, FiniteSets, TLC

VARIABLES
    \* arguments of monte_carlo_simulation_preferred_gain / module-level parameters
    num_simulations, initial_gain, preferred_gain_mean, preferred_gain_sd,
    num_adjustments, mean_adjustment, adjustment_sd,
    \* locals of monte_carlo_simulation_preferred_gain
    preferred_gains, all_simulations, user,
    \* locals of simulate_gain_adjustment (gen_mean is its rebound mean_adjustment)
    preferred_gain, gain_values, i, gen_mean, adjustment, direction,
    \* control: position in the code, and the exception raised, if any
    pc, err,
    \* numpy's global generator: the variates it yields under the seed, how many
    \* of them were consumed, which seeded run this is and what the first returned
    tape, pos, run, first,
    \* the target each stored row was generated for
    row_targets

params == <<num_simulations, initial_gain, preferred_gain_mean, preferred_gain_sd,
            num_adjustments, mean_adjustment, adjustment_sd>>
mc_locals == <<preferred_gains, all_simulations, user, row_targets>>
gen_locals == <<preferred_gain, gain_values, i, gen_mean, adjustment, direction>>
rng == <<tape, pos>>
vars == <<params, mc_locals, gen_locals, pc, err, rng, run, first>>

----------------------------------------------------------------------------
\* Bounds of the model.
MaxTrials == 6
MaxEnsTrials == 4
MaxUsers == 2

\* Ticks per dB: every halving of the mean within a trajectory stays exact.
Unit == 2 ^ (MaxTrials + MaxEnsTrials)

\* np.clip(gain_values[i], 0, 80) and np.clip(preferred_gains, 5, 50), in dB.
GainLo == 0
GainHi == 80
TargetLo == 5
TargetHi == 50

\* Standard normal variates a draw may yield.
GenNormals == {-5, -1, 0, 1}
EnsNormals == {-2, 1}

Abs(x) == IF x < 0 THEN -x ELSE x
Max(a, b) == IF a >= b THEN a ELSE b

----------------------------------------------------------------------------
\* Pure pieces of the code.

\* Python 3 round(n * 0.5): halves go to the even neighbour.
RoundHalfUp(n) == (n + 1) \div 2
Round(n) ==
    IF n % 2 = 0 THEN n \div 2
    ELSE LET f == (n - 1) \div 2 IN IF f % 2 = 0 THEN f ELSE f + 1

\* Lines 39-42: the local mean_adjustment after the if/else of trial t.
EffectiveMean(t, n, m) == IF t > Round(n) THEN m \div 2 ELSE m

\* np.random.normal(loc, scale) for the variate z.
Normal(loc, scale, z) == loc + scale * z

\* Line 49: 1 if preferred_gain > gain_values[i-1] else -1.
DirectionReversed(target, prev) == IF target > prev THEN -1 ELSE 1
DirectionTieUp(target, prev) == IF target >= prev THEN 1 ELSE -1
Direction(target, prev) == IF target > prev THEN 1 ELSE -1

\* Line 54: np.clip(x, 0, 80).
ClipLowOnly(x) == IF x < GainLo * Unit THEN GainLo * Unit ELSE x
Clip(x) ==
    IF x < GainLo * Unit THEN GainLo * Unit
    ELSE IF x > GainHi * Unit THEN GainHi * Unit ELSE x

\* Line 35: gain_values[0] = initial_gain.
SeedClipped(g) == Clip(g)
SeedValue(g) == g

\* Line 34-35: np.zeros(n) with element 0 set.
NewTrajectory(n, g) == [j \in 1..n |-> IF j = 1 THEN SeedValue(g) ELSE 0]

\* The local mean_adjustment at function entry: the argument, bound afresh.
MeanCarried(arg, carried) == carried
MeanAtEntry(arg, carried) == arg

\* exp(k) in thousandths, k the integer exponent sigma * z.
ExpMilli(k) ==
    CASE k <= -5 -> 7
      [] k = -4 -> 18
      [] k = -3 -> 50
      [] k = -2 -> 135
      [] k = -1 -> 368
      [] k = 0 -> 1000
      [] k = 1 -> 2718
      [] OTHER -> 7389

\* Line 79: np.random.lognormal(mean=np.log(m), sigma=s) = exp(log(m) + s * z);
\* np.log(0) is -inf and exp(-inf) is 0.
LogNormal(m, s, z) == IF m = 0 THEN 0 ELSE (m * ExpMilli(s * z)) \div 1000

\* Line 82: np.clip(preferred_gains, 5, 50).
ClipTarget(x) ==
    IF x < TargetLo * Unit THEN TargetLo * Unit
    ELSE IF x > TargetHi * Unit THEN TargetHi * Unit ELSE x

\* Line 89: the target passed for user k (0-based).
TargetArgFirst(k) == preferred_gains[1]
TargetArg(k) == preferred_gains[k + 1]

\* Line 85: np.zeros((n, t)).
Zeros(n, t) == [r \in 1..n |-> [j \in 1..t |-> 0]]

----------------------------------------------------------------------------
\* The generator yields the variates zs: fresh ones in the first run (recorded
\* on the tape), the recorded ones again after re-seeding.
Yields(zs, S) ==
    IF run = 1
    THEN /\ zs \in [1..Len(zs) -> S]
         /\ tape' = tape \o zs
    ELSE /\ pos + Len(zs) <= Len(tape)
         /\ zs = SubSeq(tape, pos + 1, pos + Len(zs))
         /\ tape' = tape

----------------------------------------------------------------------------
\* simulate_gain_adjustment

\* Lines 34-35.
GenAlloc ==
    /\ pc = "gen_entry"
    /\ gen_mean' = MeanAtEntry(mean_adjustment, gen_mean)
    /\ gain_values' = NewTrajectory(num_adjustments, initial_gain)
    /\ i' = 1
    /\ IF num_adjustments < 1
       THEN pc' = "error" /\ err' = "IndexError"
       ELSE pc' = "gen_loop" /\ err' = err
    /\ UNCHANGED <<params, mc_locals, preferred_gain, adjustment, direction,
                   rng, run, first>>

\* Lines 37-54: one iteration of the loop.
GenStepOn(S) ==
    /\ pc = "gen_loop"
    /\ i < num_adjustments
    /\ gen_mean' = EffectiveMean(i, num_adjustments, gen_mean)
    /\ IF adjustment_sd < 0
       THEN /\ pc' = "error" /\ err' = "ValueError"
            /\ UNCHANGED <<gain_values, i, adjustment, direction, rng>>
       ELSE /\ \E z \in (IF run = 1 THEN S ELSE {tape[pos + 1]}) :
                 /\ Yields(<<z>>, S)
                 /\ adjustment' = Normal(gen_mean', adjustment_sd, z)
            /\ pos' = pos + 1
            /\ direction' = Direction(preferred_gain, gain_values[i])
            /\ gain_values' = [gain_values EXCEPT
                   ![i + 1] = Clip(gain_values[i] + direction' * adjustment')]
            /\ i' = i + 1
            /\ UNCHANGED <<pc, err>>
    /\ UNCHANGED <<params, mc_locals, preferred_gain, run, first>>

\* Line 56, called directly.
GenReturn ==
    /\ pc = "gen_loop"
    /\ i >= num_adjustments
    /\ pc' = "gen_return"
    /\ UNCHANGED <<params, mc_locals, gen_locals, err, rng, run, first>>

----------------------------------------------------------------------------
\* monte_carlo_simulation_preferred_gain

\* Lines 79-85.
DrawTargetsOn(S) ==
    /\ pc = "mc_entry"
    /\ IF preferred_gain_sd < 0
       THEN /\ pc' = "error" /\ err' = "ValueError"
            /\ UNCHANGED <<preferred_gains, all_simulations, rng>>
       ELSE /\ \E zs \in (IF run = 1 THEN [1..num_simulations -> S]
                          ELSE {SubSeq(tape, 1, num_simulations)}) :
                 /\ Yields(zs, S)
                 /\ preferred_gains' = [k \in 1..num_simulations |->
                        ClipTarget(LogNormal(preferred_gain_mean,
                                             preferred_gain_sd, zs[k]))]
            /\ pos' = pos + num_simulations
            /\ all_simulations' = Zeros(num_simulations, num_adjustments)
            /\ pc' = "mc_loop" /\ err' = err
    /\ user' = 0
    /\ row_targets' = <<>>
    /\ UNCHANGED <<params, gen_locals, run, first>>

\* Lines 87-89: the call for the next user.
CallGen ==
    /\ pc = "mc_loop"
    /\ user < num_simulations
    /\ preferred_gain' = TargetArg(user)
    /\ pc' = "gen_entry"
    /\ UNCHANGED <<params, mc_locals, gain_values, i, gen_mean, adjustment,
                   direction, err, rng, run, first>>

\* Lines 56 and 89: the trajectory returns and is stored as the user's row.
StoreRow ==
    /\ pc = "gen_loop"
    /\ i >= num_adjustments
    /\ all_simulations' = [all_simulations EXCEPT ![user + 1] = gain_values]
    /\ row_targets' = Append(row_targets, preferred_gain)
    /\ user' = user + 1
    /\ pc' = "mc_loop"
    /\ UNCHANGED <<params, preferred_gains, gen_locals, err, rng, run, first>>

\* Line 91.
Finish ==
    /\ pc = "mc_loop"
    /\ user >= num_simulations
    /\ pc' = "done"
    /\ UNCHANGED <<params, mc_locals, gen_locals, err, rng, run, first>>

\* Line 108 once more, with the generator re-seeded with the same seed.
Reseed ==
    /\ pc = "done"
    /\ run = 1
    /\ run' = 2
    /\ first' = <<all_simulations, preferred_gains>>
    /\ pos' = 0
    /\ pc' = "mc_entry"
    /\ UNCHANGED <<params, mc_locals, gen_locals, err, tape>>

----------------------------------------------------------------------------
\* Initial states.

IdleGen ==
    /\ preferred_gain = 0
    /\ gain_values = <<>>
    /\ i = 0
    /\ gen_mean = mean_adjustment
    /\ adjustment = 0
    /\ direction = 0

IdleRng ==
    /\ tape = <<>>
    /\ pos = 0
    /\ run = 1
    /\ first = <<>>
    /\ err = "none"

\* A direct call of simulate_gain_adjustment.
InitGen ==
    /\ initial_gain \in {-5 * Unit, 0, 100 * Unit}
    /\ preferred_gain \in {0, 8 * Unit, 30 * Unit, 95 * Unit}
    /\ num_adjustments \in 0..MaxTrials
    /\ mean_adjustment = 4 * Unit
    /\ adjustment_sd \in {-Unit, 0, Unit}
    /\ num_simulations = 0
    /\ preferred_gain_mean = 0
    /\ preferred_gain_sd = 0
    /\ preferred_gains = <<>>
    /\ all_simulations = <<>>
    /\ user = 0
    /\ row_targets = <<>>
    /\ gain_values = <<>>
    /\ i = 0
    /\ gen_mean = mean_adjustment
    /\ adjustment = 0
    /\ direction = 0
    /\ IdleRng
    /\ pc = "gen_entry"

\* A call of monte_carlo_simulation_preferred_gain.
Init ==
    /\ num_simulations \in 0..MaxUsers
    /\ initial_gain \in {0, 100 * Unit}
    /\ preferred_gain_mean \in {0, 20 * Unit}
    /\ preferred_gain_sd \in {-1, 0, 1}
    /\ num_adjustments \in 0..MaxEnsTrials
    /\ mean_adjustment = 4 * Unit
    /\ adjustment_sd \in {-Unit, 0, Unit}
    /\ preferred_gains = <<>>
    /\ all_simulations = <<>>
    /\ user = 0
    /\ row_targets = <<>>
    /\ IdleGen
    /\ IdleRng
    /\ pc = "mc_entry"

\* Two calls with valid parameters under one seed.
InitSeeded ==
    /\ Init
    /\ num_simulations >= 1
    /\ num_adjustments >= 1
    /\ initial_gain = 0
    /\ preferred_gain_mean > 0
    /\ preferred_gain_sd = 1
    /\ adjustment_sd = Unit

NextGen == GenAlloc \/ GenStepOn(GenNormals) \/ GenReturn

Next ==
    \/ DrawTargetsOn(EnsNormals)
    \/ CallGen
    \/ GenAlloc
    \/ GenStepOn(EnsNormals)
    \/ StoreRow
    \/ Finish

NextSeeded == Next \/ Reseed

SpecGen == InitGen /\ [][NextGen]_vars
Spec == Init /\ [][Next]_vars
SpecSeeded == InitSeeded /\ [][NextSeeded]_vars

----------------------------------------------------------------------------
\* Properties.

InClamp(x) == GainLo * Unit <= x /\ x <= GainHi * Unit

\* A trial of the trajectory loop has just been completed: gain_values[i] is the
\* value it wrote, gain_values[i - 1] the previous one, gen_mean and adjustment
\* the mean and the magnitude it used.
Stepped == pc \in {"gen_loop", "gen_return"} /\ i >= 2

Scaled(seq) == [j \in 1..Len(seq) |-> seq[j] * Unit]

\* C1 as stated: every element of the trajectory, index 0 included, lies within
\* the clamp interval [0, 80], for any initial gain.
C1_AllWithinClamp ==
    \A j \in 1..Len(gain_values) : InClamp(gain_values[j])

\* C1 amended: every element at index 1 or later lies within [0, 80]; index 0
\* lies within it whenever the initial gain does.
C1_StepsWithinClamp ==
    /\ \A j \in 2..Len(gain_values) : InClamp(gain_values[j])
    /\ (Len(gain_values) >= 1 /\ InClamp(initial_gain)) => InClamp(gain_values[1])

\* A returned trajectory that starts above the interval and was clamped to 80.
C1_Witness ==
    /\ pc = "gen_return"
    /\ num_adjustments >= 3
    /\ initial_gain > GainHi * Unit
    /\ gain_values[2] = GainHi * Unit
    /\ adjustment_sd > 0

Scenario30 ==
    /\ pc = "gen_return"
    /\ initial_gain = 0
    /\ preferred_gain = 30 * Unit
    /\ num_adjustments = 5
    /\ mean_adjustment = 4 * Unit
    /\ adjustment_sd = 0

C3_SingleHalving ==
    Stepped =>
        gen_mean = (IF i - 1 <= Round(num_adjustments)
                    THEN mean_adjustment ELSE mean_adjustment \div 2)

\* C4: element 0 of the trajectory equals the initial gain exactly, unclamped,
\* for any initial gain.
C4_SeedIsInitialGain ==
    Len(gain_values) >= 1 => gain_values[1] = initial_gain

\* A returned trajectory of several trials whose initial gain is outside [0, 80].
C4_Witness ==
    /\ pc = "gen_return"
    /\ num_adjustments >= 2
    /\ ~InClamp(initial_gain)
    /\ gain_values[1] = initial_gain

InvalidParams ==
    \/ num_adjustments < 1
    \/ preferred_gain_mean <= 0
    \/ preferred_gain_sd < 0
    \/ adjustment_sd < 0

\* C5: with invalid parameters the run is aborted before any simulation work:
\* no variate is consumed, no target drawn, no trajectory begun, and the run
\* never returns an ensemble.
C5_EagerValidation ==
    InvalidParams =>
        /\ pos = 0
        /\ preferred_gains = <<>>
        /\ gain_values = <<>>
        /\ pc # "done"

Scenario0 ==
    /\ pc = "gen_return"
    /\ initial_gain = 0
    /\ preferred_gain = 0
    /\ num_adjustments = 5
    /\ mean_adjustment = 4 * Unit
    /\ adjustment_sd = 0

\* C6: a trial whose target equals the previous value has direction -1 and
\* writes clamp(previous - magnitude); initial_gain=0, target=0, trial_count=5,
\* step_mean=4, step_spread=0 yields [0, 0, 0, 0, 0].
C6_TieMovesDown ==
    /\ (Stepped /\ preferred_gain = gain_values[i - 1]) =>
           /\ direction = -1
           /\ gain_values[i] = Clip(gain_values[i - 1] - adjustment)
    /\ Scenario0 => gain_values = Scaled(<<0, 0, 0, 0, 0>>)

\* A trial that started on the target, above the floor, and moved down.
C6_Witness ==
    /\ Stepped
    /\ preferred_gain = gain_values[i - 1]
    /\ gain_values[i - 1] > 0
    /\ gain_values[i] < gain_values[i - 1]

\* C7: for trial_count >= 1 the returned ensemble has num_simulations rows of
\* trial_count elements each, the target vector has num_simulations elements,
\* and row k was generated for target k.
C7_EnsembleShape ==
    (pc = "done" /\ num_adjustments >= 1) =>
        /\ Len(all_simulations) = num_simulations
        /\ \A r \in 1..Len(all_simulations) :
               Len(all_simulations[r]) = num_adjustments
        /\ Len(preferred_gains) = num_simulations
        /\ row_targets = preferred_gains

\* A returned ensemble of at least two users with different targets.
C7_Witness ==
    /\ pc = "done"
    /\ num_simulations >= 2
    /\ num_adjustments >= 2
    /\ preferred_gains[1] # preferred_gains[2]
    /\ all_simulations[1] # all_simulations[2]

\* C8: the second run under the same seed and parameters returns the ensemble
\* and the target vector the first run returned.
C8_SameSeedSameResult ==
    (run = 2 /\ pc = "done") => <<all_simulations, preferred_gains>> = first

\* Both runs have returned, with several users and trials past the decay point.
C8_Witness ==
    /\ run = 2
    /\ pc = "done"
    /\ num_simulations >= 2
    /\ num_adjustments >= 4
    /\ preferred_gains[1] # preferred_gains[2]

\* C9: every user's trajectory starts from the same initial gain and the full
\* step mean (the trials up to the decay threshold use the caller's
\* mean_adjustment, whatever the earlier users' trajectories reduced), and the
\* caller's mean_adjustment and initial_gain are never changed.
C9_NoCarryOver ==
    /\ [](/\ (pc = "gen_loop" /\ i >= 2 /\ i - 1 <= Round(num_adjustments)) =>
                 gen_mean = mean_adjustment
          /\ (pc = "gen_loop") => gain_values[1] = initial_gain)
    /\ [][/\ mean_adjustment' = mean_adjustment
          /\ initial_gain' = initial_gain]_vars

\* A later user takes a trial before the threshold after an earlier user's
\* trajectory went past it.
C9_Witness ==
    /\ pc = "gen_loop"
    /\ user >= 1
    /\ i >= 2
    /\ i - 1 <= Round(num_adjustments)
    /\ num_adjustments - 1 > Round(num_adjustments)

\* C10: a trial with magnitude m >= 0 and a target within [0, 80] leaves the
\* gain no farther from the target than max(previous distance, m).
C10_BoundedOvershoot ==
    (Stepped /\ adjustment >= 0 /\ InClamp(preferred_gain)) =>
        Abs(gain_values[i] - preferred_gain)
            <= Max(Abs(gain_values[i - 1] - preferred_gain), adjustment)

\* A trial that overshot the target: it ended farther from it than it began.
C10_Witness ==
    /\ Stepped
    /\ adjustment > 0
    /\ InClamp(preferred_gain)
    /\ Abs(gain_values[i] - preferred_gain)
           > Abs(gain_values[i - 1] - preferred_gain)

====
